---- MODULE Spec2Model ----
(***************************************************************************)
(* Token tracker browser extension: the content script (latest version,    *)
(* src/unnamed/part_001) and the background script (src/unnamed/part_000,  *)
(* second half) sharing browser.storage.local.                             *)
(*                                                                         *)
(* Scheduling: each script is a single-threaded event loop.  A handler     *)
(* runs without interruption up to its next `await`; a storage call is a   *)
(* request that the store serves later, after which the continuation of    *)
(* the handler is queued and run.  Requests of one script are served in    *)
(* the order they were issued and continuations run in the order the       *)
(* requests were served; requests of the two scripts interleave freely.    *)
(* A storage call may fail; the rejected promise makes the `await` throw,  *)
(* which ends the async function it is in (nothing catches it).            *)
(*                                                                         *)
(* Numbers: the ratios are IEEE doubles in the code.  They are kept as     *)
(* exact fractions here; a quotient of two integers below 2^31 compared    *)
(* with a two-digit decimal gives the same answer in both, because the     *)
(* quotient differs from the decimal by more than one part in 2^31         *)
(* whenever it differs at all and the division is correctly rounded.       *)
(***************************************************************************)
EXTENDS Integers, Sequences, FiniteSets, TLC

\* ---------------------------------------------------------------- bounds
NumNodes == 2
MaxBatch == 2
MaxPending == 2
MaxNow == 1
TicksPerDay == 1
MaxEvents == 3
MaxReloads == 1

\* ------------------------------------------------------ program constants
CONTEXT_WINDOW == 200000

Plans == {"free", "pro", "max"}

PLAN_LIMITS(plan) ==
  CASE plan = "free" -> 100000
    [] plan = "pro" -> 500000
    [] plan = "max" -> 2000000

MESSAGE_LIMITS(plan) ==
  CASE plan = "free" -> 50
    [] plan = "pro" -> 100
    [] plan = "max" -> 150

IMAGE_TOKENS ==
  [small |-> 1000, medium |-> 2500, large |-> 5000]

\* A threshold is the decimal num/den of the source literal.
WARNING_THRESHOLD == [num |-> 8, den |-> 10]
CHAT_WARNING_THRESHOLD == [num |-> 7, den |-> 10]
DAILY_CRITICAL == [num |-> 95, den |-> 100]
CHAT_CRITICAL == [num |-> 9, den |-> 10]

\* ------------------------------------------------------------- fractions
Ratio(a, b) == [num |-> a, den |-> b]

\* p >= t for fractions with positive denominators
Geq(p, t) == p.num * t.den >= t.num * p.den

\* the smaller of two fractions
RatioMin(p, q) == IF Geq(p, q) THEN q ELSE p

\* Math.max of two fractions
RatioMax(p, q) == IF Geq(p, q) THEN p ELSE q

\* ------------------------------------------------------------ the clock
\* Date.now() is the tick count; new Date().toDateString() names its day.
ToDateString(t) == t \div TicksPerDay

\* ------------------------------------------------------- cost estimator
\* Math.ceil(text.length / 4), the text given by its length
estimateTokens(len) == (len + 3) \div 4

\* a || b on numbers
OrElse(a, b) == IF a # 0 THEN a ELSE b

NoElement == [present |-> FALSE]

Img(w, h) ==
  [present |-> TRUE, naturalWidth |-> w, width |-> w,
   naturalHeight |-> h, height |-> h]

estimateImageTokens(imgElement) ==
  IF ~imgElement.present THEN IMAGE_TOKENS.medium
  ELSE LET width == OrElse(imgElement.naturalWidth, imgElement.width)
           height == OrElse(imgElement.naturalHeight, imgElement.height)
           pixels == width * height
       IN IF pixels < 250000 THEN IMAGE_TOKENS.small
          ELSE IF pixels < 1000000 THEN IMAGE_TOKENS.medium
          ELSE IMAGE_TOKENS.large

\* ------------------------------------------------------------ the page
\* Message nodes of the content tree.  A node's content is what the handler
\* reads when it first sees the node: the length of textContent and the img
\* elements under it.
Nodes == 1..NumNodes

\* node 1 is 4,000 characters of text, node 2 a small image without text,
\* node 3 text with three images, any further node n is n characters
NodeTextLength(n) ==
  CASE n = 1 -> 4000
    [] n = 2 -> 0
    [] n = 3 -> 318
    [] OTHER -> n

NodeImages(n) ==
  CASE n = 2 -> << Img(499, 499) >>
    [] n = 3 -> << Img(1000, 1000), Img(500, 500), Img(2000, 500) >>
    [] OTHER -> << >>

RECURSIVE SumImages(_)
SumImages(images) ==
  IF images = << >> THEN 0
  ELSE estimateImageTokens(Head(images)) + SumImages(Tail(images))

\* tokens of one message node: text plus images (part_001 109-119)
NodeTokens(n) == estimateTokens(NodeTextLength(n)) + SumImages(NodeImages(n))

\* window.location: the path as its segments; href is the path under the
\* one origin, so the path stands for it.
Locations == { << "new" >>, << "chat", "A" >>, << "chat", "B" >> }

\* pathname.includes('/chat/'): a segment "chat" followed by another segment
IncludesChat(path) == \E i \in 1..(Len(path) - 1) : path[i] = "chat"

\* ------------------------------------------------------------ the store
StoreGet(s, keys) == [k \in (keys \cap DOMAIN s) |-> s[k]]

StoreSet(s, items) ==
  [k \in (DOMAIN s \cup DOMAIN items) |->
     IF k \in DOMAIN items THEN items[k] ELSE s[k]]

\* data[k] || 0
OrZero(data, k) == IF k \in DOMAIN data THEN data[k] ELSE 0

\* data.selectedPlan || 'free'
OrFree(data) ==
  IF "selectedPlan" \in DOMAIN data THEN data["selectedPlan"] ELSE "free"

\* data.selectedPlan || 'pro'
OrPro(data) ==
  IF "selectedPlan" \in DOMAIN data THEN data["selectedPlan"] ELSE "pro"

\* data.lastResetDate !== today (an unset key reads undefined)
DateDiffers(data, today) ==
  IF "lastResetDate" \in DOMAIN data THEN data["lastResetDate"] # today ELSE TRUE

\* data.lastUrl !== currentUrl
UrlDiffers(data, currentUrl) ==
  IF "lastUrl" \in DOMAIN data THEN data["lastUrl"] # currentUrl ELSE TRUE

\* what the onInstalled listener writes (part_000 40-47), on day `day`
Installed(day) ==
  [currentConversationTokens |-> 0, dailyTokens |-> 0,
   lastResetDate |-> day, lastUrl |-> << >>, selectedPlan |-> "pro"]

\* what the onInstalled listener of the earlier background script wrote
\* (part_000 7-12): no plan is stored
InstalledEarlier(day) ==
  [currentConversationTokens |-> 0, dailyTokens |-> 0,
   lastResetDate |-> day, lastUrl |-> << >>]

\* the store as earlier page loads on plan free left it: below the warning
\* thresholds, and below the critical ones
EarlierSession ==
  [currentConversationTokens |-> 138000, currentMessageCount |-> 33,
   dailyTokens |-> 78800, lastResetDate |-> 0, lastUrl |-> << "chat", "A" >>,
   selectedPlan |-> "free", lastUpdate |-> 0]

LateSession ==
  [currentConversationTokens |-> 178000, currentMessageCount |-> 44,
   dailyTokens |-> 93000, lastResetDate |-> 0, lastUrl |-> << "chat", "A" >>,
   selectedPlan |-> "free", lastUpdate |-> 0]

\* the store as an earlier page load on plan pro left it: one fragment below
\* 400,000 tokens today
ProSession ==
  [currentConversationTokens |-> 10000, currentMessageCount |-> 5,
   dailyTokens |-> 399000, lastResetDate |-> 0, lastUrl |-> << "chat", "A" >>,
   selectedPlan |-> "pro", lastUpdate |-> 0]

InitialStores ==
  { Installed(0), InstalledEarlier(0), EarlierSession, LateSession, ProSession }

\* ---------------------------------------------------------------- state
Scripts == {"page", "bg"}

VARIABLES
  now,                        \* the wall clock, in ticks
  store,                      \* browser.storage.local: key -> value
  currentConversationTokens,  \* part_001 48
  currentMessageCount,        \* part_001 49
  dailyTokens,                \* part_001 50
  currentPlan,                \* part_001 51
  DAILY_LIMIT,                \* part_001 52
  MESSAGE_LIMIT,              \* part_001 53
  tokensCounted,              \* nodes whose dataset.tokensCounted is set
  banners,                    \* elements with id token-tracker-banner, in document order
  observing,                  \* observeMessages has installed its observer
  counterRendered,            \* updateCounter has rendered the panel (plan selector exists)
  reqs,                       \* per script: storage calls issued, not yet served
  done,                       \* per script: served calls whose continuation has not run
  raised,                     \* history: the banners the last alert evaluation created
  priced,                     \* history: node -> times its cost was added
  redelivered,                \* history: a node already counted was delivered again
  rejected,                   \* history: the calls whose await threw
  dailyBase,                  \* history: dailyTokens as loaded, 0 after the page's reset
  dailyApplied,               \* history: sum of the costs applied since then
  convBase,                   \* history: conversation tokens as loaded, 0 after a reset
  convApplied,                \* history: sum of the costs applied since then
  msgBase,                    \* history: message count as loaded, 0 after a reset
  msgApplied,                 \* history: fragments applied since then
  failures,                   \* history: storage calls that failed
  titleEvents,                \* history: title notifications delivered
  planChanges,                \* history: plan selections
  refreshes,                  \* history: timer-driven panel refreshes
  bgChecks,                   \* history: hourly checks started
  imgElement,                 \* the argument of a call of estimateImageTokens
  imageTokens,                \* what the call returned, 0 before it
  page2,                      \* a second page instance on the same store: its globals and document
  reloads                     \* history: reloads of the page

memVars == << currentConversationTokens, currentMessageCount, dailyTokens >>
planVars == << currentPlan, DAILY_LIMIT, MESSAGE_LIMIT >>
domVars == << tokensCounted, banners, raised >>
nodeHist == << priced, redelivered >>
installVars == << observing, counterRendered >>
dailyHist == << dailyBase, dailyApplied >>
convHist == << convBase, convApplied, msgBase, msgApplied >>
boundVars == << failures, titleEvents, planChanges, refreshes, bgChecks >>
\* what only the specifications beside Spec change
asideVars == << imgElement, imageTokens, page2, reloads >>

\* what the environment has done so far: clock ticks, failed calls, title
\* notifications, plan selections, timer firings
Events == now + failures + titleEvents + planChanges + refreshes + bgChecks

vars ==
  << now, store, memVars, planVars, domVars, installVars, reqs, done,
     nodeHist, rejected, dailyHist, convHist, boundVars, asideVars >>

GetReq(who, keys, ctx) == [who |-> who, op |-> "get", keys |-> keys, ctx |-> ctx]
SetReq(who, items, ctx) == [who |-> who, op |-> "set", items |-> items, ctx |-> ctx]

Pending(s) == Len(reqs[s]) + Len(done[s])

Issue(s, r) == reqs' = [reqs EXCEPT ![s] = Append(@, r)]

\* the continuation at the head of script s's queue belongs to handler `who`
Resumes(s, who, ok) ==
  /\ done[s] # << >>
  /\ Head(done[s]).who = who
  /\ Head(done[s]).ok = ok

Pop(s) == done' = [done EXCEPT ![s] = Tail(@)]

InitializeKeys ==
  {"currentConversationTokens", "currentMessageCount", "dailyTokens", "selectedPlan"}

UpdateCounterKeys ==
  {"currentConversationTokens", "currentMessageCount", "dailyTokens", "selectedPlan",
   "counterLocked", "counterPosition", "counterSize", "counterVisible"}

\* the globals as the script's evaluation leaves them (part_001 48-53), an
\* empty document, and the store some earlier run left
InitGlobals ==
  /\ store \in InitialStores
  /\ currentConversationTokens = 0
  /\ currentMessageCount = 0
  /\ dailyTokens = 0
  /\ currentPlan = "pro"
  /\ DAILY_LIMIT = PLAN_LIMITS("pro")
  /\ MESSAGE_LIMIT = MESSAGE_LIMITS("pro")
  /\ tokensCounted = {}
  /\ banners = << >>
  /\ observing = FALSE
  /\ counterRendered = FALSE
  /\ raised = << >>
  /\ priced = [n \in Nodes |-> 0]
  /\ redelivered = FALSE
  /\ rejected = {}
  /\ dailyBase = 0
  /\ dailyApplied = 0
  /\ convBase = 0
  /\ convApplied = 0
  /\ msgBase = 0
  /\ msgApplied = 0
  /\ failures = 0
  /\ titleEvents = 0
  /\ planChanges = 0
  /\ refreshes = 0
  /\ bgChecks = 0

\* The content script has been evaluated: the counters hold their initial
\* values and initialize() is waiting for its storage read.
InitProgram ==
  /\ now = 0
  /\ reqs = [s \in Scripts |->
               IF s = "page" THEN << GetReq("initialize", InitializeKeys, << >>) >>
               ELSE << >>]
  /\ done = [s \in Scripts |-> << >>]
  /\ InitGlobals

\* the globals of a content script that has been evaluated (part_001 48-53)
\* and its document; applied and stored0 are history: the costs the page
\* has applied, and the daily counter the store held when it was opened
Page2Evaluated(stored) ==
  [currentConversationTokens |-> 0, currentMessageCount |-> 0, dailyTokens |-> 0,
   currentPlan |-> "pro", DAILY_LIMIT |-> PLAN_LIMITS("pro"),
   MESSAGE_LIMIT |-> MESSAGE_LIMITS("pro"),
   tokensCounted |-> {}, banners |-> << >>, observing |-> FALSE,
   applied |-> 0, stored0 |-> stored]

\* one page instance; no call of the estimator is looked at on its own
Init ==
  /\ InitProgram
  /\ imgElement = NoElement
  /\ imageTokens = 0
  /\ page2 = Page2Evaluated(0)
  /\ reloads = 0

\* ------------------------------------------------------- the environment
Tick ==
  /\ now < MaxNow
  /\ Events < MaxEvents
  /\ now' = now + 1
  /\ UNCHANGED << asideVars, rejected, store, memVars, planVars, domVars, installVars, reqs,
                  done, nodeHist, dailyHist, convHist, boundVars >>

\* the writes their handler ends with: the conversation reset's and the
\* background reset's (only a console.log follows).  Whether such a call
\* succeeds or fails, no continuation changes anything.
LastCalls == {"urlObserver.set", "checkMidnightReset.set"}

\* the store serves the oldest call of script s
ServeGet(s) ==
  /\ reqs[s] # << >>
  /\ Head(reqs[s]).op = "get"
  /\ LET r == Head(reqs[s])
     IN done' = [done EXCEPT ![s] =
                   Append(@, [who |-> r.who, ok |-> TRUE,
                              data |-> StoreGet(store, r.keys), ctx |-> r.ctx])]
  /\ reqs' = [reqs EXCEPT ![s] = Tail(@)]
  /\ UNCHANGED << asideVars, rejected, now, store, memVars, planVars, domVars, installVars,
                  nodeHist, dailyHist, convHist, boundVars >>

ServeSet(s) ==
  /\ reqs[s] # << >>
  /\ Head(reqs[s]).op = "set"
  /\ LET r == Head(reqs[s])
     IN /\ store' = StoreSet(store, r.items)
        /\ done' = IF r.who \in LastCalls THEN done
                   ELSE [done EXCEPT ![s] =
                           Append(@, [who |-> r.who, ok |-> TRUE, data |-> r.items,
                                      ctx |-> r.ctx])]
  /\ reqs' = [reqs EXCEPT ![s] = Tail(@)]
  /\ UNCHANGED << asideVars, rejected, now, memVars, planVars, domVars, installVars,
                  nodeHist, dailyHist, convHist, boundVars >>

\* the oldest call of script s fails: the store is left as it is
FailCall(s) ==
  /\ reqs[s] # << >>
  /\ Events < MaxEvents
  /\ LET r == Head(reqs[s])
     IN done' = IF r.who \in LastCalls THEN done
                ELSE [done EXCEPT ![s] =
                        Append(@, [who |-> r.who, ok |-> FALSE, data |-> << >>,
                                   ctx |-> r.ctx])]
  /\ reqs' = [reqs EXCEPT ![s] = Tail(@)]
  /\ failures' = failures + 1
  /\ UNCHANGED << asideVars, rejected, now, store, memVars, planVars, domVars, installVars,
                  nodeHist, dailyHist, convHist, titleEvents, planChanges, refreshes, bgChecks >>

\* an awaited call was rejected: the await throws and the handler ends
Rejected(s) ==
  /\ done[s] # << >>
  /\ ~Head(done[s]).ok
  /\ Pop(s)
  /\ rejected' = rejected \cup {Head(done[s]).who}
  /\ UNCHANGED << asideVars, now, store, memVars, planVars, domVars, installVars,
                  reqs, nodeHist, dailyHist, convHist, boundVars >>

\* ------------------------------------------------- initialize (page load)
\* addTokenCounter() then observeMessages(), the tail of initialize():
\* the panel's first updateCounter() issues its read and the message
\* observer is installed.
ResumeInitialize(q) ==
  /\ reqs' = [reqs EXCEPT !["page"] =
                Append(q, GetReq("updateCounter", UpdateCounterKeys, << >>))]
  /\ observing' = TRUE

\* initialize(), after its read: loads the counters and the plan, then
\* checkDailyReset() issues its read
InitializeLoaded ==
  /\ Resumes("page", "initialize", TRUE)
  /\ LET data == Head(done["page"]).data
     IN /\ currentConversationTokens' = OrZero(data, "currentConversationTokens")
        /\ currentMessageCount' = OrZero(data, "currentMessageCount")
        /\ dailyTokens' = OrZero(data, "dailyTokens")
        /\ currentPlan' = OrPro(data)
        /\ DAILY_LIMIT' = PLAN_LIMITS(OrPro(data))
        /\ MESSAGE_LIMIT' = MESSAGE_LIMITS(OrPro(data))
        /\ dailyBase' = OrZero(data, "dailyTokens")
        /\ convBase' = OrZero(data, "currentConversationTokens")
        /\ msgBase' = OrZero(data, "currentMessageCount")
  /\ dailyApplied' = 0
  /\ convApplied' = 0
  /\ msgApplied' = 0
  /\ Pop("page")
  /\ Issue("page", GetReq("checkDailyReset", {"lastResetDate"}, << >>))
  /\ UNCHANGED << asideVars, rejected, now, store, domVars, installVars, nodeHist, boundVars >>

\* a reset's write that zeroes the conversation counter as well
ResetItemsClearsConversation(today) ==
  [dailyTokens |-> 0, lastResetDate |-> today, currentConversationTokens |-> 0]

\* the reset's write, issued when the stored date is not today's
ResetItems(today) == [dailyTokens |-> 0, lastResetDate |-> today]

\* checkDailyReset(), after its read
CheckDailyResetCompare ==
  /\ Resumes("page", "checkDailyReset", TRUE)
  /\ Pop("page")
  /\ LET data == Head(done["page"]).data
         today == ToDateString(now)
     IN IF DateDiffers(data, today)
        THEN /\ Issue("page", SetReq("checkDailyReset.set", ResetItems(today), << >>))
             /\ UNCHANGED observing
        ELSE ResumeInitialize(reqs["page"])
  /\ UNCHANGED << asideVars, rejected, now, store, memVars, planVars, domVars,                   counterRendered, nodeHist, dailyHist, convHist, boundVars >>

\* checkDailyReset() after its write, without the assignment of line 436
CheckDailyResetDoneKeepsMemory ==
  /\ Resumes("page", "checkDailyReset.set", TRUE)
  /\ Pop("page")
  /\ dailyTokens' = dailyTokens
  /\ dailyBase' = 0
  /\ dailyApplied' = 0
  /\ ResumeInitialize(reqs["page"])
  /\ UNCHANGED << asideVars, rejected, now, store, currentConversationTokens,
                  currentMessageCount, planVars, domVars,                   counterRendered, nodeHist, convHist, boundVars >>

\* checkDailyReset(), after its write: zeroes the counter in memory and
\* returns to initialize()
CheckDailyResetDone ==
  /\ Resumes("page", "checkDailyReset.set", TRUE)
  /\ Pop("page")
  /\ dailyTokens' = 0
  /\ dailyBase' = 0
  /\ dailyApplied' = 0
  /\ ResumeInitialize(reqs["page"])
  /\ UNCHANGED << asideVars, rejected, now, store, currentConversationTokens,
                  currentMessageCount, planVars, domVars,                   counterRendered, nodeHist, convHist, boundVars >>

\* ------------------------------------------------------- the panel
\* setInterval(updateCounter, 2000)
UpdateCounterTimer ==
  /\ observing
  /\ Pending("page") < MaxPending
  /\ Events < MaxEvents
  /\ refreshes' = refreshes + 1
  /\ Issue("page", GetReq("updateCounter", UpdateCounterKeys, << >>))
  /\ UNCHANGED << asideVars, rejected, now, store, memVars, planVars, domVars, installVars,
                  done, nodeHist, dailyHist, convHist, failures, titleEvents, planChanges, bgChecks >>

\* updateCounter(), after its read
UpdateCounterLoaded ==
  /\ Resumes("page", "updateCounter", TRUE)
  /\ Pop("page")
  /\ LET data == Head(done["page"]).data
         hidden == IF "counterVisible" \in DOMAIN data
                   THEN data["counterVisible"] = FALSE ELSE FALSE
     IN IF hidden
        THEN UNCHANGED << planVars, counterRendered >>
        ELSE /\ currentPlan' = OrPro(data)
             /\ DAILY_LIMIT' = PLAN_LIMITS(OrPro(data))
             /\ MESSAGE_LIMIT' = MESSAGE_LIMITS(OrPro(data))
             /\ counterRendered' = TRUE
  /\ UNCHANGED << asideVars, rejected, now, store, memVars, domVars, observing,                   reqs, nodeHist, dailyHist, convHist, boundVars >>

\* a change handler whose write also clears the conversation counter
PlanChangeClearsConversation(newPlan) ==
  /\ counterRendered
  /\ Pending("page") < MaxPending
  /\ Events < MaxEvents
  /\ planChanges' = planChanges + 1
  /\ Issue("page", SetReq("planSelector",
                          [selectedPlan |-> newPlan, currentConversationTokens |-> 0],
                          newPlan))
  /\ UNCHANGED << asideVars, rejected, now, store, memVars, planVars, domVars, installVars,
                  done, nodeHist, dailyHist, convHist, failures, titleEvents, refreshes, bgChecks >>

\* the plan selector's change handler, up to its write
PlanChange(newPlan) ==
  /\ counterRendered
  /\ Pending("page") < MaxPending
  /\ Events < MaxEvents
  /\ planChanges' = planChanges + 1
  /\ Issue("page", SetReq("planSelector", [selectedPlan |-> newPlan], newPlan))
  /\ UNCHANGED << asideVars, rejected, now, store, memVars, planVars, domVars, installVars,
                  done, nodeHist, dailyHist, convHist, failures, titleEvents, refreshes, bgChecks >>

\* the change handler, after its write, switching the plan's name only
PlanSavedKeepsLimits ==
  /\ Resumes("page", "planSelector", TRUE)
  /\ currentPlan' = Head(done["page"]).ctx
  /\ UNCHANGED << DAILY_LIMIT, MESSAGE_LIMIT >>
  /\ Pop("page")
  /\ Issue("page", GetReq("updateCounter", UpdateCounterKeys, << >>))
  /\ UNCHANGED << asideVars, rejected, now, store, memVars, domVars, installVars,
                  nodeHist, dailyHist, convHist, boundVars >>

\* the change handler, after its write: switches the limits and refreshes
PlanSaved ==
  /\ Resumes("page", "planSelector", TRUE)
  /\ LET newPlan == Head(done["page"]).ctx
     IN /\ currentPlan' = newPlan
        /\ DAILY_LIMIT' = PLAN_LIMITS(newPlan)
        /\ MESSAGE_LIMIT' = MESSAGE_LIMITS(newPlan)
  /\ Pop("page")
  /\ Issue("page", GetReq("updateCounter", UpdateCounterKeys, << >>))
  /\ UNCHANGED << asideVars, rejected, now, store, memVars, domVars, installVars,
                  nodeHist, dailyHist, convHist, boundVars >>

\* ------------------------------------------------------ observeMessages
\* What the callbacks of one batch change is carried in st: the marks, the
\* three counters, the page's issued calls and the history.

\* the write of one fragment application
FragmentItems(conv, cnt, daily, t) ==
  [currentConversationTokens |-> conv, currentMessageCount |-> cnt,
   dailyTokens |-> daily, lastUpdate |-> t]

\* a fragment application that adds only the text's tokens to the daily counter
ApplyFragmentDailyTextOnly(msg, st, t) ==
  LET tokens == NodeTokens(msg)
      conv == st.conv + tokens
      cnt == st.cnt + 1
      daily == st.daily + estimateTokens(NodeTextLength(msg))
  IN [st EXCEPT !.counted = @ \cup {msg}, !.conv = conv, !.cnt = cnt,
                !.daily = daily,
                !.issued = Append(@, SetReq("message",
                                            FragmentItems(conv, cnt, daily, t), msg)),
                !.priced = [@ EXCEPT ![msg] = @ + 1],
                !.applied = @ + tokens, !.fragments = @ + 1]

\* a fragment application that leaves the message counter as it is
ApplyFragmentNoCount(msg, st, t) ==
  LET tokens == NodeTokens(msg)
      conv == st.conv + tokens
      daily == st.daily + tokens
  IN [st EXCEPT !.counted = @ \cup {msg}, !.conv = conv, !.daily = daily,
                !.issued = Append(@, SetReq("message",
                                            FragmentItems(conv, st.cnt, daily, t), msg)),
                !.priced = [@ EXCEPT ![msg] = @ + 1],
                !.applied = @ + tokens, !.fragments = @ + 1]

\* a fragment application whose write carries the counters as they were
\* before the addition
ApplyFragmentStaleWrite(msg, st, t) ==
  LET tokens == NodeTokens(msg)
      conv == st.conv + tokens
      cnt == st.cnt + 1
      daily == st.daily + tokens
  IN [st EXCEPT !.counted = @ \cup {msg}, !.conv = conv, !.cnt = cnt,
                !.daily = daily,
                !.issued = Append(@, SetReq("message",
                                            FragmentItems(st.conv, st.cnt, st.daily, t),
                                            msg)),
                !.priced = [@ EXCEPT ![msg] = @ + 1],
                !.applied = @ + tokens, !.fragments = @ + 1]

\* a fragment application whose write carries the fragment's own cost in
\* place of the running totals
ApplyFragmentWritesDelta(msg, st, t) ==
  LET tokens == NodeTokens(msg)
      conv == st.conv + tokens
      cnt == st.cnt + 1
      daily == st.daily + tokens
  IN [st EXCEPT !.counted = @ \cup {msg}, !.conv = conv, !.cnt = cnt,
                !.daily = daily,
                !.issued = Append(@, SetReq("message",
                                            FragmentItems(tokens, 1, tokens, t), msg)),
                !.priced = [@ EXCEPT ![msg] = @ + 1],
                !.applied = @ + tokens, !.fragments = @ + 1]

\* The async callback of messages.forEach on an unmarked node, up to its
\* await: marks the node, prices it, adds to the three counters, issues the
\* write (part_001 107-132)
ApplyFragment(msg, st, t) ==
  LET tokens == NodeTokens(msg)
      conv == st.conv + tokens
      cnt == st.cnt + 1
      daily == st.daily + tokens
  IN [st EXCEPT !.counted = @ \cup {msg}, !.conv = conv, !.cnt = cnt,
                !.daily = daily,
                !.issued = Append(@, SetReq("message",
                                            FragmentItems(conv, cnt, daily, t), msg)),
                !.priced = [@ EXCEPT ![msg] = @ + 1],
                !.applied = @ + tokens, !.fragments = @ + 1]

\* the callback without its check of the mark
MessageHandlerNoDedup(msg, st, t) == ApplyFragment(msg, st, t)

\* The async callback of messages.forEach, up to its await, on message node
\* msg: skips a node that carries the mark
MessageHandler(msg, st, t) ==
  IF msg \in st.counted
  THEN [st EXCEPT !.redelivered = TRUE]
  ELSE ApplyFragment(msg, st, t)

RECURSIVE ProcessBatch(_, _, _)
ProcessBatch(batch, st, t) ==
  IF batch = << >> THEN st
  ELSE ProcessBatch(Tail(batch), MessageHandler(Head(batch), st, t), t)

\* the matched message nodes of one mutation batch, in the order visited; a
\* node may be reported again, in this batch or a later one
Batches == UNION { [1..k -> Nodes] : k \in 1..MaxBatch }

\* the MutationObserver callback of observeMessages on one batch
MutationBatch(batch) ==
  /\ observing
  /\ Pending("page") + Len(batch) <= MaxPending
  /\ LET st == ProcessBatch(batch,
                 [counted |-> tokensCounted,
                  conv |-> currentConversationTokens,
                  cnt |-> currentMessageCount,
                  daily |-> dailyTokens,
                  issued |-> reqs["page"],
                  priced |-> priced,
                  redelivered |-> redelivered,
                  applied |-> 0,
                  fragments |-> 0],
                 now)
     IN /\ tokensCounted' = st.counted
        /\ currentConversationTokens' = st.conv
        /\ currentMessageCount' = st.cnt
        /\ dailyTokens' = st.daily
        /\ reqs' = [reqs EXCEPT !["page"] = st.issued]
        /\ priced' = st.priced
        /\ redelivered' = st.redelivered
        /\ dailyApplied' = dailyApplied + st.applied
        /\ convApplied' = convApplied + st.applied
        /\ msgApplied' = msgApplied + st.fragments
  /\ UNCHANGED << asideVars, rejected, now, store, planVars, banners, raised, installVars,
                  done, dailyBase, convBase, msgBase, boundVars >>

\* ------------------------------------------------------ the alert banner
\* the banner built with > in place of >=
BannerForStrict(percentage, type) ==
  IF type = "chat"
  THEN IF ~Geq(CHAT_CRITICAL, percentage)
       THEN << [type |-> "chat", severity |-> "critical"] >>
       ELSE IF ~Geq(CHAT_WARNING_THRESHOLD, percentage)
       THEN << [type |-> "chat", severity |-> "warning"] >>
       ELSE << >>
  ELSE IF ~Geq(DAILY_CRITICAL, percentage)
       THEN << [type |-> "daily", severity |-> "critical"] >>
       ELSE IF ~Geq(WARNING_THRESHOLD, percentage)
       THEN << [type |-> "daily", severity |-> "warning"] >>
       ELSE << >>

\* the banner createWarningBanner builds: its dimension and severity, or
\* none when no message applies
BannerFor(percentage, type) ==
  IF type = "chat"
  THEN IF Geq(percentage, CHAT_CRITICAL)
       THEN << [type |-> "chat", severity |-> "critical"] >>
       ELSE IF Geq(percentage, CHAT_WARNING_THRESHOLD)
       THEN << [type |-> "chat", severity |-> "warning"] >>
       ELSE << >>
  ELSE IF Geq(percentage, DAILY_CRITICAL)
       THEN << [type |-> "daily", severity |-> "critical"] >>
       ELSE IF Geq(percentage, WARNING_THRESHOLD)
       THEN << [type |-> "daily", severity |-> "warning"] >>
       ELSE << >>

\* createWarningBanner on the document's banners bs: removes the element
\* getElementById finds (the first), prepends the new one
createWarningBanner(bs, percentage, type) ==
  LET kept == IF bs # << >> THEN Tail(bs) ELSE bs
  IN BannerFor(percentage, type) \o kept

\* the callback after its write: the two threshold checks
MessageWritten ==
  /\ Resumes("page", "message", TRUE)
  /\ Pop("page")
  /\ LET dailyPercentage == Ratio(dailyTokens, DAILY_LIMIT)
         contextPercentage == Ratio(currentConversationTokens, CONTEXT_WINDOW)
         messagePercentage == Ratio(currentMessageCount, MESSAGE_LIMIT)
         chatPercentage == RatioMax(contextPercentage, messagePercentage)
         warnDaily == Geq(dailyPercentage, WARNING_THRESHOLD)
         warnChat == Geq(chatPercentage, CHAT_WARNING_THRESHOLD)
         afterDaily == IF warnDaily
                       THEN createWarningBanner(banners, dailyPercentage, "daily")
                       ELSE banners
     IN /\ banners' = IF warnChat
                      THEN createWarningBanner(afterDaily, chatPercentage, "chat")
                      ELSE afterDaily
        /\ raised' = (IF warnDaily THEN BannerFor(dailyPercentage, "daily") ELSE << >>)
                     \o (IF warnChat THEN BannerFor(chatPercentage, "chat") ELSE << >>)
  /\ UNCHANGED << asideVars, rejected, now, store, memVars, planVars, tokensCounted,
                  installVars, reqs, nodeHist, dailyHist, convHist, boundVars >>

\* ------------------------------------------------- the title observer
\* the callback without its test of the path
TitleChangedAnyPath(loc) ==
  /\ Events < MaxEvents
  /\ Pending("page") < MaxPending
  /\ titleEvents' = titleEvents + 1
  /\ Issue("page", GetReq("urlObserver", {"lastUrl"}, loc))
  /\ UNCHANGED << asideVars, rejected, now, store, memVars, planVars, domVars, installVars,
                  done, nodeHist, dailyHist, convHist, failures, planChanges,
                  refreshes, bgChecks >>

\* the urlObserver callback, up to its read
TitleChanged(loc) ==
  /\ Events < MaxEvents
  /\ Pending("page") < MaxPending
  /\ titleEvents' = titleEvents + 1
  /\ IF IncludesChat(loc)
     THEN Issue("page", GetReq("urlObserver", {"lastUrl"}, loc))
     ELSE UNCHANGED reqs
  /\ UNCHANGED << asideVars, rejected, now, store, memVars, planVars, domVars, installVars,
                  done, nodeHist, dailyHist, convHist, failures, planChanges,
                  refreshes, bgChecks >>

\* the reset of the first version, which knows no message counter
\* (src/content.js 221-226)
UrlCompareKeepsCount ==
  /\ Resumes("page", "urlObserver", TRUE)
  /\ Pop("page")
  /\ LET data == Head(done["page"]).data
         currentUrl == Head(done["page"]).ctx
     IN IF UrlDiffers(data, currentUrl)
        THEN /\ currentConversationTokens' = 0
             /\ UNCHANGED currentMessageCount
             /\ convBase' = 0
             /\ convApplied' = 0
             /\ msgBase' = 0
             /\ msgApplied' = 0
             /\ Issue("page", SetReq("urlObserver.set",
                                     [currentConversationTokens |-> 0,
                                      lastUrl |-> currentUrl],
                                     currentUrl))
        ELSE UNCHANGED << currentConversationTokens, currentMessageCount,
                          convHist, reqs >>
  /\ UNCHANGED << asideVars, rejected, now, store, dailyTokens, planVars, domVars,
                  installVars, nodeHist, dailyHist, boundVars >>

\* the urlObserver callback, after its read
UrlCompare ==
  /\ Resumes("page", "urlObserver", TRUE)
  /\ Pop("page")
  /\ LET data == Head(done["page"]).data
         currentUrl == Head(done["page"]).ctx
     IN IF UrlDiffers(data, currentUrl)
        THEN /\ currentConversationTokens' = 0
             /\ currentMessageCount' = 0
             /\ convBase' = 0
             /\ convApplied' = 0
             /\ msgBase' = 0
             /\ msgApplied' = 0
             /\ Issue("page", SetReq("urlObserver.set",
                                     [currentConversationTokens |-> 0,
                                      currentMessageCount |-> 0,
                                      lastUrl |-> currentUrl],
                                     currentUrl))
        ELSE UNCHANGED << currentConversationTokens, currentMessageCount,
                          convHist, reqs >>
  /\ UNCHANGED << asideVars, rejected, now, store, dailyTokens, planVars, domVars,
                  installVars, nodeHist, dailyHist, boundVars >>

\* ------------------------------------------------ the background script
\* setInterval(checkMidnightReset, 3600000): the check up to its read
BgTimer ==
  /\ Events < MaxEvents
  /\ Pending("bg") = 0
  /\ bgChecks' = bgChecks + 1
  /\ Issue("bg", GetReq("checkMidnightReset", {"lastResetDate"}, << >>))
  /\ UNCHANGED << asideVars, rejected, now, store, memVars, planVars, domVars, installVars,
                  done, nodeHist, dailyHist, convHist, failures, titleEvents, planChanges, refreshes >>

\* the check without its comparison: resets whatever the stored date
CheckMidnightResetAlways ==
  /\ Resumes("bg", "checkMidnightReset", TRUE)
  /\ Pop("bg")
  /\ Issue("bg", SetReq("checkMidnightReset.set", ResetItems(ToDateString(now)), << >>))
  /\ UNCHANGED << asideVars, rejected, now, store, memVars, planVars, domVars, installVars,
                  nodeHist, dailyHist, convHist, boundVars >>

\* checkMidnightReset(), after its read
CheckMidnightResetCompare ==
  /\ Resumes("bg", "checkMidnightReset", TRUE)
  /\ Pop("bg")
  /\ LET data == Head(done["bg"]).data
         today == ToDateString(now)
     IN IF DateDiffers(data, today)
        THEN Issue("bg", SetReq("checkMidnightReset.set", ResetItems(today), << >>))
        ELSE UNCHANGED reqs
  /\ UNCHANGED << asideVars, rejected, now, store, memVars, planVars, domVars, installVars,
                  nodeHist, dailyHist, convHist, boundVars >>

\* ------------------------------------------------------- specification
Next ==
  \/ Tick
  \/ \E s \in Scripts : ServeGet(s)
  \/ \E s \in Scripts : ServeSet(s)
  \/ \E s \in Scripts : FailCall(s)
  \/ \E s \in Scripts : Rejected(s)
  \/ InitializeLoaded
  \/ CheckDailyResetCompare
  \/ CheckDailyResetDone
  \/ UpdateCounterTimer
  \/ UpdateCounterLoaded
  \/ \E p \in Plans : PlanChange(p)
  \/ PlanSaved
  \/ \E batch \in Batches : MutationBatch(batch)
  \/ MessageWritten
  \/ \E loc \in Locations : TitleChanged(loc)
  \/ UrlCompare
  \/ BgTimer
  \/ CheckMidnightResetCompare

Spec == Init /\ [][Next]_vars

\* ------------------------------------------------- the estimator alone
\* the widths and heights an img element may report: 0 while the image has
\* not loaded and has no layout size
ImageDims == {0, 499, 500, 999, 1000, 1001}

\* the arguments estimateImageTokens is applied to: no element, or an
\* element with its natural and its layout dimensions
ImageInputs ==
  {NoElement} \cup
  { [present |-> TRUE, naturalWidth |-> nw, width |-> w,
     naturalHeight |-> nh, height |-> h] :
      nw \in ImageDims, w \in ImageDims, nh \in ImageDims, h \in ImageDims }

InitEstimator ==
  /\ InitProgram
  /\ store = Installed(0)
  /\ imgElement \in ImageInputs
  /\ imageTokens = 0
  /\ page2 = Page2Evaluated(0)
  /\ reloads = 0

\* one call of estimateImageTokens(imgElement)
EstimateImage ==
  /\ imageTokens = 0
  /\ imageTokens' = estimateImageTokens(imgElement)
  /\ UNCHANGED << imgElement, page2, reloads, now, store, memVars, planVars, domVars, installVars,
                  reqs, done, nodeHist, rejected, dailyHist, convHist, boundVars >>

NextEstimator == EstimateImage

SpecEstimator == InitEstimator /\ [][NextEstimator]_vars

\* ------------------------------------------ two pages on the same store
\* A second tab runs the same content script on the same storage area.  Its
\* handlers are those of the first page, acting on its own globals and
\* document (page2) and on its own calls (reqs and done at "page2").
Page2Vars ==
  << now, store, memVars, planVars, domVars, installVars, nodeHist, rejected,
     dailyHist, convHist, boundVars, imgElement, imageTokens, reloads >>

\* both tabs have evaluated the script, on the day of the stored date or on
\* the next day; each initialize() is waiting for its read
InitPages ==
  /\ InitGlobals
  /\ now \in 0..MaxNow
  /\ imgElement = NoElement
  /\ imageTokens = 0
  /\ page2 = Page2Evaluated(OrZero(store, "dailyTokens"))
  /\ reloads = 0
  /\ reqs = [s \in Scripts \cup {"page2"} |->
               IF s = "bg" THEN << >>
               ELSE << GetReq("initialize", InitializeKeys, << >>) >>]
  /\ done = [s \in Scripts \cup {"page2"} |-> << >>]

\* initialize() of the second page, after its read
Page2InitializeLoaded ==
  /\ Resumes("page2", "initialize", TRUE)
  /\ LET data == Head(done["page2"]).data
     IN page2' = [page2 EXCEPT
          !.currentConversationTokens = OrZero(data, "currentConversationTokens"),
          !.currentMessageCount = OrZero(data, "currentMessageCount"),
          !.dailyTokens = OrZero(data, "dailyTokens"),
          !.currentPlan = OrPro(data),
          !.DAILY_LIMIT = PLAN_LIMITS(OrPro(data)),
          !.MESSAGE_LIMIT = MESSAGE_LIMITS(OrPro(data))]
  /\ done' = [done EXCEPT !["page2"] = Tail(@)]
  /\ Issue("page2", GetReq("checkDailyReset", {"lastResetDate"}, << >>))
  /\ UNCHANGED Page2Vars

\* addTokenCounter() and observeMessages() of the second page
Page2ResumeInitialize(q) ==
  reqs' = [reqs EXCEPT !["page2"] =
             Append(q, GetReq("updateCounter", UpdateCounterKeys, << >>))]

\* checkDailyReset() of the second page, after its read
Page2CheckDailyResetCompare ==
  /\ Resumes("page2", "checkDailyReset", TRUE)
  /\ done' = [done EXCEPT !["page2"] = Tail(@)]
  /\ LET data == Head(done["page2"]).data
         today == ToDateString(now)
     IN IF DateDiffers(data, today)
        THEN /\ Issue("page2", SetReq("checkDailyReset.set", ResetItems(today), << >>))
             /\ UNCHANGED page2
        ELSE /\ Page2ResumeInitialize(reqs["page2"])
             /\ page2' = [page2 EXCEPT !.observing = TRUE]
  /\ UNCHANGED Page2Vars

\* checkDailyReset() of the second page, after its write
Page2CheckDailyResetDone ==
  /\ Resumes("page2", "checkDailyReset.set", TRUE)
  /\ done' = [done EXCEPT !["page2"] = Tail(@)]
  /\ page2' = [page2 EXCEPT !.dailyTokens = 0, !.observing = TRUE]
  /\ Page2ResumeInitialize(reqs["page2"])
  /\ UNCHANGED Page2Vars

\* updateCounter() of the second page, after its read
Page2UpdateCounterLoaded ==
  /\ Resumes("page2", "updateCounter", TRUE)
  /\ done' = [done EXCEPT !["page2"] = Tail(@)]
  /\ LET data == Head(done["page2"]).data
         hidden == IF "counterVisible" \in DOMAIN data
                   THEN data["counterVisible"] = FALSE ELSE FALSE
     IN IF hidden
        THEN UNCHANGED page2
        ELSE page2' = [page2 EXCEPT !.currentPlan = OrPro(data),
                                    !.DAILY_LIMIT = PLAN_LIMITS(OrPro(data)),
                                    !.MESSAGE_LIMIT = MESSAGE_LIMITS(OrPro(data))]
  /\ UNCHANGED reqs
  /\ UNCHANGED Page2Vars

\* the MutationObserver callback of the second page on one batch
Page2MutationBatch(batch) ==
  /\ page2.observing
  /\ Pending("page2") + Len(batch) <= MaxPending
  /\ LET st == ProcessBatch(batch,
                 [counted |-> page2.tokensCounted,
                  conv |-> page2.currentConversationTokens,
                  cnt |-> page2.currentMessageCount,
                  daily |-> page2.dailyTokens,
                  issued |-> reqs["page2"],
                  priced |-> [n \in Nodes |-> 0],
                  redelivered |-> FALSE,
                  applied |-> 0,
                  fragments |-> 0],
                 now)
     IN /\ page2' = [page2 EXCEPT !.tokensCounted = st.counted,
                                  !.currentConversationTokens = st.conv,
                                  !.currentMessageCount = st.cnt,
                                  !.dailyTokens = st.daily,
                                  !.applied = @ + st.applied]
        /\ reqs' = [reqs EXCEPT !["page2"] = st.issued]
  /\ UNCHANGED done
  /\ UNCHANGED Page2Vars

\* the callback of the second page after its write: the two threshold checks
Page2MessageWritten ==
  /\ Resumes("page2", "message", TRUE)
  /\ done' = [done EXCEPT !["page2"] = Tail(@)]
  /\ LET dailyPercentage == Ratio(page2.dailyTokens, page2.DAILY_LIMIT)
         contextPercentage == Ratio(page2.currentConversationTokens, CONTEXT_WINDOW)
         messagePercentage == Ratio(page2.currentMessageCount, page2.MESSAGE_LIMIT)
         chatPercentage == RatioMax(contextPercentage, messagePercentage)
         afterDaily == IF Geq(dailyPercentage, WARNING_THRESHOLD)
                       THEN createWarningBanner(page2.banners, dailyPercentage, "daily")
                       ELSE page2.banners
     IN page2' = [page2 EXCEPT !.banners =
                    IF Geq(chatPercentage, CHAT_WARNING_THRESHOLD)
                    THEN createWarningBanner(afterDaily, chatPercentage, "chat")
                    ELSE afterDaily]
  /\ UNCHANGED reqs
  /\ UNCHANGED Page2Vars

\* the calls of both pages are served without failure; no timer, title
\* change or plan selection happens
NextPages ==
  \/ \E s \in {"page", "page2"} : ServeGet(s)
  \/ \E s \in {"page", "page2"} : ServeSet(s)
  \/ InitializeLoaded
  \/ CheckDailyResetCompare
  \/ CheckDailyResetDone
  \/ UpdateCounterLoaded
  \/ \E batch \in Batches : MutationBatch(batch)
  \/ MessageWritten
  \/ Page2InitializeLoaded
  \/ Page2CheckDailyResetCompare
  \/ Page2CheckDailyResetDone
  \/ Page2UpdateCounterLoaded
  \/ \E batch \in Batches : Page2MutationBatch(batch)
  \/ Page2MessageWritten

SpecPages == InitPages /\ [][NextPages]_vars

\* ------------------------------------------------------- a page reload
\* The tab is reloaded while the page has no storage call outstanding: the
\* script is evaluated again on a new document (part_001 48-55, 459-464).
\* The globals have their initial values, no element carries a mark, and
\* initialize() issues its read; the store is as it was.  The application
\* renders the conversation again, so message node n of the new document
\* holds the content node n held before; priced counts per content.
Reload ==
  /\ reloads < MaxReloads
  /\ Pending("page") = 0
  /\ reloads' = reloads + 1
  /\ currentConversationTokens' = 0
  /\ currentMessageCount' = 0
  /\ dailyTokens' = 0
  /\ currentPlan' = "pro"
  /\ DAILY_LIMIT' = PLAN_LIMITS("pro")
  /\ MESSAGE_LIMIT' = MESSAGE_LIMITS("pro")
  /\ tokensCounted' = {}
  /\ banners' = << >>
  /\ raised' = << >>
  /\ observing' = FALSE
  /\ counterRendered' = FALSE
  /\ Issue("page", GetReq("initialize", InitializeKeys, << >>))
  /\ dailyBase' = 0 /\ dailyApplied' = 0
  /\ convBase' = 0 /\ convApplied' = 0
  /\ msgBase' = 0 /\ msgApplied' = 0
  /\ UNCHANGED << now, store, done, nodeHist, rejected, boundVars,
                  imgElement, imageTokens, page2 >>

\* one page on one day, its calls served without failure, reloaded at most
\* MaxReloads times; no timer, title change or plan selection happens
NextReload ==
  \/ ServeGet("page")
  \/ ServeSet("page")
  \/ InitializeLoaded
  \/ CheckDailyResetCompare
  \/ UpdateCounterLoaded
  \/ \E batch \in Batches : MutationBatch(batch)
  \/ MessageWritten
  \/ Reload

SpecReload == Init /\ [][NextReload]_vars

\* ---------------------------------------------------------- vocabulary
RECURSIVE SumTokens(_)
SumTokens(S) ==
  IF S = {} THEN 0
  ELSE LET n == CHOOSE x \in S : TRUE
       IN NodeTokens(n) + SumTokens(S \ {n})

ChatA == << "chat", "A" >>
ChatB == << "chat", "B" >>

CounterKeys == {"currentConversationTokens", "currentMessageCount", "dailyTokens"}

\* the calls of handler `who` among the page's issued calls
InFlight(who) == { i \in 1..Len(reqs["page"]) : reqs["page"][i].who = who }

\* this step runs the continuation of the page's call `who`
Continues(who, ok) ==
  /\ Resumes("page", who, ok)
  /\ Len(done'["page"]) < Len(done["page"])

\* this step is the store answering script s's oldest call, of handler `who`
Answers(s, who) ==
  /\ reqs[s] # << >>
  /\ Head(reqs[s]).who = who
  /\ reqs'[s] = Tail(reqs[s])

Succeeds(s, who) == Answers(s, who) /\ failures' = failures
Fails(s, who) == Answers(s, who) /\ failures' = failures + 1

\* ---------------------------------------------------------------- claims

\* C1: within one page load every message node is priced at most once,
\* whatever batches report it and whatever writes are in flight: a node's
\* cost has been added exactly once if it carries the mark and never
\* otherwise, so the daily counter holds the loaded value plus the cost of
\* each marked node once, and the conversation and message counters hold no
\* more than one cost and one count per marked node.
C1_AtMostOncePricing ==
  /\ \A n \in Nodes : priced[n] = IF n \in tokensCounted THEN 1 ELSE 0
  /\ dailyTokens = dailyBase + SumTokens(tokensCounted)
  /\ currentConversationTokens <= convBase + SumTokens(tokensCounted)
  /\ currentMessageCount <= msgBase + Cardinality(tokensCounted)

\* a node was delivered again after it was counted, and the writes of both
\* nodes are still in flight
C1_Witness ==
  /\ redelivered
  /\ tokensCounted = Nodes
  /\ Cardinality(InFlight("message")) >= 2

\* C2: the in-memory daily counter is exactly the value loaded at
\* initialization (0 once the page's own reset has run) plus the sum of the
\* costs applied since, in every state.
C2_Conservation == dailyTokens = dailyBase + dailyApplied

\* both fragments applied on top of a loaded total, one write served and one
\* still in flight
C2_Witness ==
  /\ dailyBase = 78800
  /\ dailyApplied = NodeTokens(1) + NodeTokens(2)
  /\ dailyTokens = 80800
  /\ Cardinality(InFlight("message")) = 1

\* C3: a daily-reset check (the page's or the background's) whose read shows
\* a lastResetDate other than today's date writes dailyTokens 0 and
\* lastResetDate today; when the store takes that write it holds exactly
\* those two values, and the page then zeroes its own daily counter.  A check
\* whose read shows today's date writes nothing and changes nothing.
C3_CheckStep(s, who) ==
  Resumes(s, who, TRUE) /\ Len(done'[s]) < Len(done[s]) =>
    LET data == Head(done[s]).data
        today == ToDateString(now)
        same == "lastResetDate" \in DOMAIN data /\ data["lastResetDate"] = today
        last == reqs'[s][Len(reqs'[s])]
    IN IF same
       THEN /\ UNCHANGED << store, memVars >>
            /\ \A i \in 1..Len(reqs'[s]) : reqs'[s][i].op = "set" =>
                 i <= Len(reqs[s]) /\ reqs'[s][i] = reqs[s][i]
       ELSE /\ Len(reqs'[s]) = Len(reqs[s]) + 1
            /\ last.op = "set"
            /\ last.items = [dailyTokens |-> 0, lastResetDate |-> today]

C3_WriteStep(s, who) ==
  Succeeds(s, who) =>
    /\ store'["dailyTokens"] = 0
    /\ store'["lastResetDate"] = Head(reqs[s]).items["lastResetDate"]
    /\ \A k \in DOMAIN store \ {"dailyTokens", "lastResetDate"} :
         k \in DOMAIN store' /\ store'[k] = store[k]

C3_DailyResetCorrect ==
  [][ /\ C3_CheckStep("page", "checkDailyReset")
      /\ C3_CheckStep("bg", "checkMidnightReset")
      /\ C3_WriteStep("page", "checkDailyReset.set")
      /\ C3_WriteStep("bg", "checkMidnightReset.set")
      /\ (Continues("checkDailyReset.set", TRUE) => dailyTokens' = 0) ]_vars

\* the background check has reset the counter on day 1, and the page's check,
\* made later that day, has read the new date
C3_Witness ==
  /\ ToDateString(now) = 1
  /\ bgChecks = 1
  /\ store["lastResetDate"] = 1
  /\ store["dailyTokens"] = 0
  /\ Resumes("page", "checkDailyReset", TRUE)
  /\ Head(done["page"]).data = [lastResetDate |-> 1]

\* C4: when the title observer's read returns a lastUrl other than the
\* conversation location it was called at, the conversation token counter and
\* the message counter become 0 in memory in that step and a write of
\* currentConversationTokens 0, currentMessageCount 0 and lastUrl (that
\* location) is issued; when the store takes the write it holds those three
\* values.  Nothing is kept per conversation: in every state the two counters
\* are what was loaded or, once a reset has run, 0, plus the costs applied
\* since, also after a return to an earlier conversation.
C4_CompareStep ==
  Continues("urlObserver", TRUE) =>
    LET data == Head(done["page"]).data
        currentUrl == Head(done["page"]).ctx
        same == "lastUrl" \in DOMAIN data /\ data["lastUrl"] = currentUrl
        issued == reqs'["page"]
    IN IF same
       THEN UNCHANGED << memVars, reqs, store >>
       ELSE /\ currentConversationTokens' = 0
            /\ currentMessageCount' = 0
            /\ dailyTokens' = dailyTokens
            /\ Len(issued) = Len(reqs["page"]) + 1
            /\ issued[Len(issued)].op = "set"
            /\ issued[Len(issued)].items =
                 [currentConversationTokens |-> 0, currentMessageCount |-> 0,
                  lastUrl |-> currentUrl]

C4_WriteStep ==
  Succeeds("page", "urlObserver.set") =>
    /\ store'["currentConversationTokens"] = 0
    /\ store'["currentMessageCount"] = 0
    /\ store'["lastUrl"] = Head(reqs["page"]).items["lastUrl"]

C4_SinceReset ==
  /\ currentConversationTokens = convBase + convApplied
  /\ currentMessageCount = msgBase + msgApplied

C4_ConversationReset ==
  /\ []C4_SinceReset
  /\ [][C4_CompareStep /\ C4_WriteStep]_vars

\* conversation A held 138,000 tokens; the page went to B and back to A, both
\* changes were observed, and a fragment was applied after the return: the
\* counters hold that fragment only, in memory and in the store
C4_Witness ==
  /\ titleEvents = 2
  /\ failures = 0
  /\ dailyBase = 78800
  /\ store["lastUrl"] = ChatA
  /\ convBase = 0
  /\ convApplied > 0
  /\ currentConversationTokens = convApplied
  /\ currentMessageCount = 1
  /\ store["currentConversationTokens"] = currentConversationTokens
  /\ store["currentMessageCount"] = 1

\* C5: a title notification at a location outside a conversation issues no
\* read, so every read of the title observer belongs to a conversation
\* location; the notification itself changes neither the counters nor the
\* store; and the conversation counters only ever go down in the step that
\* compares a conversation location with a different stored lastUrl.
C5_ReadsAreConversations ==
  /\ \A i \in InFlight("urlObserver") : IncludesChat(reqs["page"][i].ctx)
  /\ \A i \in 1..Len(done["page"]) :
       done["page"][i].who = "urlObserver" => IncludesChat(done["page"][i].ctx)

C5_NotificationStep ==
  titleEvents' # titleEvents =>
    /\ UNCHANGED << memVars, store, done >>
    /\ \A i \in 1..Len(reqs'["page"]) :
         reqs'["page"][i].op = "set" =>
           i <= Len(reqs["page"]) /\ reqs'["page"][i] = reqs["page"][i]

C5_DecreaseStep ==
  \/ currentConversationTokens' < currentConversationTokens
  \/ currentMessageCount' < currentMessageCount
  => /\ Continues("urlObserver", TRUE)
     /\ IncludesChat(Head(done["page"]).ctx)
     /\ LET data == Head(done["page"]).data
        IN ~("lastUrl" \in DOMAIN data /\ data["lastUrl"] = Head(done["page"]).ctx)

C6_New == { n \in Nodes : priced'[n] # priced[n] }

C6_ApplyStep ==
  priced' # priced =>
    LET c == SumTokens(C6_New)
        k == Cardinality(C6_New)
        before == reqs["page"]
        issued == reqs'["page"]
    IN /\ \A n \in C6_New : priced'[n] = priced[n] + 1
       /\ currentConversationTokens' = currentConversationTokens + c
       /\ dailyTokens' = dailyTokens + c
       /\ currentMessageCount' = currentMessageCount + k
       /\ Len(issued) = Len(before) + k
       /\ \A i \in 1..Len(before) : issued[i] = before[i]
       /\ \A i \in (Len(before) + 1)..Len(issued) :
            /\ issued[i].op = "set"
            /\ DOMAIN issued[i].items = CounterKeys \cup {"lastUpdate"}
            /\ issued[i].items["lastUpdate"] = now
            /\ issued[i].items["currentMessageCount"] =
                 currentMessageCount + (i - Len(before))
            /\ issued[i].items["currentConversationTokens"] - currentConversationTokens
                 = issued[i].items["dailyTokens"] - dailyTokens
       /\ issued[Len(issued)].items =
            [currentConversationTokens |-> currentConversationTokens',
             currentMessageCount |-> currentMessageCount',
             dailyTokens |-> dailyTokens',
             lastUpdate |-> now]
       /\ UNCHANGED << store, done >>

C6_ApplyFragment == [][C6_ApplyStep]_vars

\* one fragment of cost 1000 has just been applied on top of loaded counters:
\* its write, still in flight, carries the three new values
C6_Witness ==
  /\ tokensCounted = {1}
  /\ dailyTokens = 78800 + 1000
  /\ currentConversationTokens = 138000 + 1000
  /\ currentMessageCount = 33 + 1
  /\ InFlight("message") # {}
  /\ \A i \in InFlight("message") :
       reqs["page"][i].items =
         [currentConversationTokens |-> 139000, currentMessageCount |-> 34,
          dailyTokens |-> 79800, lastUpdate |-> now]

\* C7: a fragment write that fails changes neither the store nor the
\* counters in memory, and neither does the rejection that follows; the write
\* issued last (no conversation reset after it) always carries the three
\* counters as they are in memory, the costs whose writes failed included;
\* and when the store takes a fragment write it holds exactly the three
\* values the write carries.
C7_LastWrite ==
  LET W == InFlight("message") \cup InFlight("urlObserver.set")
      last == CHOOSE i \in W : \A j \in W : j <= i
  IN W # {} /\ reqs["page"][last].who = "message" =>
       /\ reqs["page"][last].items["currentConversationTokens"]
            = currentConversationTokens
       /\ reqs["page"][last].items["currentMessageCount"] = currentMessageCount
       /\ reqs["page"][last].items["dailyTokens"] = dailyTokens
       /\ dailyTokens = dailyBase + dailyApplied

C7_FailStep ==
  Fails("page", "message") \/ Continues("message", FALSE) =>
    UNCHANGED << memVars, store >>

C7_TakeStep ==
  Succeeds("page", "message") =>
    \A k \in CounterKeys : store'[k] = Head(reqs["page"]).items[k]

C7_WriteFailureTolerance ==
  /\ []C7_LastWrite
  /\ [][C7_FailStep /\ C7_TakeStep]_vars

\* the write of the first fragment failed (its rejection is next to run), the
\* write of the second succeeded: memory and store both hold the loaded
\* values plus both costs
C7_Witness ==
  /\ Len(done["page"]) = 2
  /\ done["page"][1].who = "message" /\ ~done["page"][1].ok
  /\ done["page"][2].who = "message" /\ done["page"][2].ok
  /\ dailyBase = 78800
  /\ dailyTokens = 78800 + NodeTokens(1) + NodeTokens(2)
  /\ store["dailyTokens"] = dailyTokens
  /\ store["currentConversationTokens"] = currentConversationTokens
  /\ store["currentMessageCount"] = 35
  /\ currentMessageCount = 35

\* C8: when the read of initialize() has failed, tracking still runs: once
\* the page has no storage call outstanding, the message observer is
\* installed (and the counters started from zero).
C8_ReadFailureDegrades ==
  "initialize" \in rejected /\ Pending("page") = 0 =>
    /\ observing
    /\ dailyTokens = dailyApplied
    /\ currentConversationTokens = convApplied

\* C9: when one alert evaluation raises a daily alert and a conversation
\* alert, the document then shows a banner of each dimension.
IsDaily(b) == b.type = "daily"
IsChat(b) == b.type = "chat"

C9_BothBannersShown ==
  SelectSeq(raised, IsDaily) # << >> /\ SelectSeq(raised, IsChat) # << >> =>
    SelectSeq(banners, IsDaily) # << >> /\ SelectSeq(banners, IsChat) # << >>

\* C10: the alert evaluation that follows a fragment's write raises, on the
\* daily dimension, CRITICAL when dailyTokens / PLAN_LIMITS[currentPlan] is at
\* least 0.95, WARNING when it is at least 0.80 and below 0.95, and nothing
\* below 0.80; under plan free 79,800 raises nothing and 80,800 the WARNING.
C10_Expected(tokens, limit) ==
  IF 100 * tokens >= 95 * limit
  THEN << [type |-> "daily", severity |-> "critical"] >>
  ELSE IF 100 * tokens >= 80 * limit
  THEN << [type |-> "daily", severity |-> "warning"] >>
  ELSE << >>

C10_EvaluationStep ==
  Continues("message", TRUE) =>
    /\ SelectSeq(raised', IsDaily) = C10_Expected(dailyTokens, PLAN_LIMITS(currentPlan))
    /\ (currentPlan = "free" /\ dailyTokens = 79800 => SelectSeq(raised', IsDaily) = << >>)
    /\ (currentPlan = "free" /\ dailyTokens = 80800 =>
          SelectSeq(raised', IsDaily) = << [type |-> "daily", severity |-> "warning"] >>)

C10_DailyAlertDecision == [][C10_EvaluationStep]_vars

\* plan free, 80,800 tokens today: the evaluation after the second
\* fragment's write has raised the daily WARNING
C10_Witness ==
  /\ currentPlan = "free"
  /\ dailyTokens = 80800
  /\ Pending("page") = 0
  /\ SelectSeq(raised, IsDaily) = << [type |-> "daily", severity |-> "warning"] >>

\* C11: the alert evaluation that follows a fragment's write raises, on the
\* conversation dimension, from r = max(currentConversationTokens / 200,000,
\* currentMessageCount / MESSAGE_LIMITS[currentPlan]): CRITICAL when r >= 0.90,
\* WARNING when 0.70 <= r < 0.90, nothing when r < 0.70; the context term
\* divides by 200,000 under every plan.
C11_Expected(tokens, count, limit) ==
  IF 10 * tokens >= 9 * 200000 \/ 10 * count >= 9 * limit
  THEN << [type |-> "chat", severity |-> "critical"] >>
  ELSE IF 10 * tokens >= 7 * 200000 \/ 10 * count >= 7 * limit
  THEN << [type |-> "chat", severity |-> "warning"] >>
  ELSE << >>

C11_EvaluationStep ==
  Continues("message", TRUE) =>
    SelectSeq(raised', IsChat) =
      C11_Expected(currentConversationTokens, currentMessageCount,
                   MESSAGE_LIMITS(currentPlan))

C11_ConversationAlertDecision == [][C11_EvaluationStep]_vars

\* plan free, 45 messages of 50 and 179,000 tokens of 200,000: the message
\* term alone reaches 0.90 and the evaluation has raised the CRITICAL alert
C11_Witness ==
  /\ currentPlan = "free"
  /\ currentMessageCount = 45
  /\ currentConversationTokens = 179000
  /\ Pending("page") = 0
  /\ SelectSeq(raised, IsChat) = << [type |-> "chat", severity |-> "critical"] >>

\* after a change to plan pro, 35 messages of 100 and 140,000 tokens: the
\* context term alone reaches 0.70 and the evaluation has raised the WARNING
C11_ContextWitness ==
  /\ currentPlan = "pro"
  /\ currentMessageCount = 35
  /\ currentConversationTokens = 140000
  /\ Pending("page") = 0
  /\ SelectSeq(raised, IsChat) = << [type |-> "chat", severity |-> "warning"] >>

\* C12: the conversation token counter and the daily token counter never
\* decrease from one state to the next except by a reset: in memory only in
\* the step of checkDailyReset that zeroes the daily counter and in the step
\* of urlObserver that zeroes the conversation counter, in the store only
\* when the store serves the write of a daily reset or of a conversation
\* reset; when the write of a conversation reset has failed, the decrease
\* shows in the store with a later fragment's write.
C12_Stored(s, k) == OrZero(s, k)

C12_MemoryStep ==
  /\ dailyTokens' < dailyTokens => Continues("checkDailyReset.set", TRUE)
  /\ currentConversationTokens' < currentConversationTokens =>
       /\ Continues("urlObserver", TRUE)
       /\ Head(done["page"]).data["lastUrl"] # Head(done["page"]).ctx

C12_StoreStep ==
  /\ C12_Stored(store', "dailyTokens") < C12_Stored(store, "dailyTokens") =>
       \/ Succeeds("page", "checkDailyReset.set")
       \/ Succeeds("bg", "checkMidnightReset.set")
  /\ C12_Stored(store', "currentConversationTokens")
       < C12_Stored(store, "currentConversationTokens") =>
       \/ Succeeds("page", "urlObserver.set")
       \/ /\ Succeeds("page", "message")
          /\ failures > 0
          /\ convBase = 0

C13_DailyLimit(plan) ==
  CASE plan = "free" -> 100000 [] plan = "pro" -> 500000 [] plan = "max" -> 2000000

C13_MessageLimit(plan) ==
  CASE plan = "free" -> 50 [] plan = "pro" -> 100 [] plan = "max" -> 150

C13_Equal(p, q) == p.num * q.den = q.num * p.den

C13_LimitsOfPlan ==
  /\ DAILY_LIMIT = C13_DailyLimit(currentPlan)
  /\ MESSAGE_LIMIT = C13_MessageLimit(currentPlan)
  /\ CONTEXT_WINDOW = 200000

C13_EvaluationStep ==
  Continues("message", TRUE) /\ dailyTokens = 400000 =>
    /\ currentPlan = "pro" =>
         /\ C13_Equal(Ratio(dailyTokens, DAILY_LIMIT), [num |-> 8, den |-> 10])
         /\ SelectSeq(raised', IsDaily) = << [type |-> "daily", severity |-> "warning"] >>
    /\ currentPlan = "max" =>
         /\ C13_Equal(Ratio(dailyTokens, DAILY_LIMIT), [num |-> 2, den |-> 10])
         /\ SelectSeq(raised', IsDaily) = << >>

C13_TierScaling == []C13_LimitsOfPlan /\ [][C13_EvaluationStep]_vars

\* 400,000 tokens today evaluated under plan max after a change from pro: no
\* daily alert, where the same total under pro raises the WARNING
C13_Witness ==
  /\ dailyTokens = 400000
  /\ store["selectedPlan"] = "max"
  /\ currentPlan = "max"
  /\ DAILY_LIMIT = 2000000
  /\ MESSAGE_LIMIT = 150
  /\ msgApplied = 1
  /\ Pending("page") = 0
  /\ raised = << >>
  /\ store["dailyTokens"] = 400000

C13_ProWitness ==
  /\ dailyTokens = 400000
  /\ currentPlan = "pro"
  /\ Pending("page") = 0
  /\ SelectSeq(raised, IsDaily) = << [type |-> "daily", severity |-> "warning"] >>

\* C14: a plan change to tier t writes selectedPlan = t and nothing else:
\* when its write is served every other key of the store (the three
\* counters, lastResetDate, lastUrl) keeps its value and the in-memory
\* counters are unchanged; when the handler resumes it puts t and t's daily
\* and message limits in effect and changes no counter; and once no plan
\* change is in progress the plan in effect is the stored one, so later
\* ratios use its limits.
C14_OtherKeys == {"currentConversationTokens", "currentMessageCount", "dailyTokens",
                  "lastResetDate", "lastUrl", "lastUpdate"}

C14_WriteStep ==
  Succeeds("page", "planSelector") =>
    LET t == Head(reqs["page"]).ctx
    IN /\ store'["selectedPlan"] = t
       /\ StoreGet(store', C14_OtherKeys) = StoreGet(store, C14_OtherKeys)
       /\ UNCHANGED << memVars, planVars >>

C14_ResumeStep ==
  Continues("planSelector", TRUE) =>
    LET t == Head(done["page"]).ctx
    IN /\ currentPlan' = t
       /\ DAILY_LIMIT' = C13_DailyLimit(t)
       /\ MESSAGE_LIMIT' = C13_MessageLimit(t)
       /\ UNCHANGED << memVars, store >>

C14_InProgress ==
  \/ \E i \in 1..Len(reqs["page"]) : reqs["page"][i].who = "planSelector"
  \/ \E i \in 1..Len(done["page"]) : done["page"][i].who = "planSelector"

C14_Afterwards ==
  counterRendered /\ ~C14_InProgress =>
    /\ currentPlan = OrPro(store)
    /\ DAILY_LIMIT = C13_DailyLimit(OrPro(store))
    /\ MESSAGE_LIMIT = C13_MessageLimit(OrPro(store))

C14_PlanChange == []C14_Afterwards /\ [][C14_WriteStep /\ C14_ResumeStep]_vars

\* a change from free to max has completed: the plan is stored and in effect
\* with its limits, the counters loaded before it are as they were
C14_Witness ==
  /\ planChanges = 1 /\ failures = 0
  /\ Pending("page") = 0
  /\ store["selectedPlan"] = "max"
  /\ currentPlan = "max" /\ DAILY_LIMIT = 2000000 /\ MESSAGE_LIMIT = 150
  /\ dailyTokens = 78800 /\ store["dailyTokens"] = 78800
  /\ currentConversationTokens = 138000
  /\ store["currentConversationTokens"] = 138000
  /\ currentMessageCount = 33 /\ store["currentMessageCount"] = 33
  /\ store["lastUrl"] = ChatA /\ store["lastResetDate"] = 0

\* C15: in every reachable state the plan in effect is free, pro or max and
\* the daily and message limits in use are that plan's; while no plan is
\* stored the plan in effect is pro.
C15_PlanInEffect ==
  /\ currentPlan \in {"free", "pro", "max"}
  /\ DAILY_LIMIT = C13_DailyLimit(currentPlan)
  /\ MESSAGE_LIMIT = C13_MessageLimit(currentPlan)
  /\ "selectedPlan" \notin DOMAIN store =>
       currentPlan = "pro" /\ DAILY_LIMIT = 500000 /\ MESSAGE_LIMIT = 100

\* no plan is stored; initialize() and the panel have loaded the store and a
\* fragment has been applied under plan pro
C15_Witness ==
  /\ "selectedPlan" \notin DOMAIN store
  /\ counterRendered
  /\ msgApplied = 1
  /\ Pending("page") = 0
  /\ currentPlan = "pro"

\* C16: an image whose dimensions are unavailable (the element reports
\* neither a natural nor a layout width, or neither height) costs the medium
\* bucket 2500, as does a missing element.
C16_Width == OrElse(imgElement.naturalWidth, imgElement.width)
C16_Height == OrElse(imgElement.naturalHeight, imgElement.height)

C16_Unavailable ==
  ~imgElement.present \/ C16_Width = 0 \/ C16_Height = 0

C16_UnavailableIsMedium ==
  imageTokens # 0 /\ C16_Unavailable => imageTokens = 2500

\* what the estimator does give: the three buckets by pixel area for an
\* element (an element without dimensions has area 0, the small bucket),
\* 2500 for a missing element
C16_Buckets ==
  imageTokens # 0 =>
    IF ~imgElement.present THEN imageTokens = 2500
    ELSE LET area == C16_Width * C16_Height
         IN /\ area < 250000 => imageTokens = 1000
            /\ 250000 <= area /\ area < 1000000 => imageTokens = 2500
            /\ area >= 1000000 => imageTokens = 5000
            /\ C16_Width = 499 /\ C16_Height = 499 => imageTokens = 1000
            /\ C16_Width = 500 /\ C16_Height = 500 => imageTokens = 2500
            /\ C16_Width = 1000 /\ C16_Height = 1000 => imageTokens = 5000

\* C17: once a day-boundary reset has been performed (the store holds a
\* lastResetDate later than the day the page was loaded on), the stored daily
\* counter holds no cost applied before that reset: it is at most the sum of
\* the costs this page has applied.
C17_ResetClearsEarlierCosts ==
  "lastResetDate" \in DOMAIN store /\ store["lastResetDate"] > 0 =>
    OrZero(store, "dailyTokens") <= dailyApplied

\* C18: for one change of conversation location the counters are zeroed
\* once: when the urlObserver callback resumes for a location whose reset has
\* already been made (its write is stored or on its way) and fragments have
\* been applied since, it leaves the conversation token counter and the
\* message counter as they are and issues no further write.
C18_ResetMade(loc) ==
  \/ "lastUrl" \in DOMAIN store /\ store["lastUrl"] = loc
  \/ \E i \in 1..Len(reqs["page"]) :
       /\ reqs["page"][i].who = "urlObserver.set"
       /\ reqs["page"][i].items["lastUrl"] = loc

C18_LaterNotificationStep ==
  /\ Continues("urlObserver", TRUE)
  /\ C18_ResetMade(Head(done["page"]).ctx)
  /\ convBase = 0 /\ msgBase = 0
  /\ convApplied > 0
  => /\ currentConversationTokens' = currentConversationTokens
     /\ currentMessageCount' = currentMessageCount
     /\ reqs' = reqs

C18_ZeroedOnce == [][C18_LaterNotificationStep]_vars

\* C19: the daily counter is zeroed at most once per calendar day: when the
\* store serves the write of a daily-reset check and already holds that
\* day's date as lastResetDate, the write does not clear the costs stored
\* since the day's first reset.
C19_ResetWriteServed(s, who) ==
  /\ Succeeds(s, who)
  /\ "lastResetDate" \in DOMAIN store
  /\ store["lastResetDate"] = Head(reqs[s]).items["lastResetDate"]
  /\ OrZero(store, "dailyTokens") > 0

C19_SecondResetStep ==
  C19_ResetWriteServed("bg", "checkMidnightReset.set")
    \/ C19_ResetWriteServed("page", "checkDailyReset.set")
  => store'["dailyTokens"] = store["dailyTokens"]

C19_ZeroedOncePerDay == [][C19_SecondResetStep]_vars

\* C20: with two page instances on the same store and no daily reset since
\* they were opened, once every storage write has completed the stored daily
\* counter equals the value stored when the pages were opened plus the sum
\* of the costs both pages have applied.
C20_AllWritten ==
  \A s \in DOMAIN reqs : reqs[s] = << >> /\ done[s] = << >>

C20_NoIncrementLost ==
  /\ C20_AllWritten
  /\ "lastResetDate" \in DOMAIN store
  /\ store["lastResetDate"] = 0
  /\ now = 0
  => OrZero(store, "dailyTokens") = page2.stored0 + dailyApplied + page2.applied

\* C21: over the lifetime of the stored counters, reloads included, the
\* cost of a unit of content is added at most once.
C21_PricedOnceAcrossReloads ==
  \A n \in Nodes : priced[n] <= 1

\* C22: alerts do not depend on the store: when the write of a fragment
\* application has failed and the handler resumes with the daily ratio at
\* least 0.80 or the conversation ratio at least 0.70, the corresponding
\* alert is raised.
C22_DailyQualifies == 100 * dailyTokens >= 80 * DAILY_LIMIT

C22_ChatQualifies ==
  \/ 100 * currentConversationTokens >= 70 * CONTEXT_WINDOW
  \/ 100 * currentMessageCount >= 70 * MESSAGE_LIMIT

C22_FailedWriteStep ==
  Continues("message", FALSE) =>
    /\ C22_DailyQualifies => SelectSeq(raised', IsDaily) # << >>
    /\ C22_ChatQualifies => SelectSeq(raised', IsChat) # << >>

C22_AlertsWithoutStore == [][C22_FailedWriteStep]_vars

\* C23: in the one page, with every call served and no reset by the
\* background script, whenever initialize() has loaded the counters and no
\* write of the page is in flight (issued and not yet served, or served and
\* its handler not yet resumed), the stored currentConversationTokens,
\* currentMessageCount and dailyTokens equal the in-memory counters.
C23_Loaded ==
  /\ \A i \in 1..Len(reqs["page"]) : reqs["page"][i].who # "initialize"
  /\ \A i \in 1..Len(done["page"]) : done["page"][i].who # "initialize"

C23_WriteInFlight ==
  \/ \E i \in 1..Len(reqs["page"]) : reqs["page"][i].op = "set"
  \/ \E i \in 1..Len(done["page"]) :
       done["page"][i].who \in {"message", "checkDailyReset.set", "planSelector"}

C23_StoreFollowsMemory ==
  /\ failures = 0
  /\ bgChecks = 0
  /\ C23_Loaded
  /\ ~C23_WriteInFlight
  => /\ OrZero(store, "currentConversationTokens") = currentConversationTokens
     /\ OrZero(store, "currentMessageCount") = currentMessageCount
     /\ OrZero(store, "dailyTokens") = dailyTokens

\* after a load of 138,000 / 33 / 78,800 the conversation was reset on a
\* change to conversation B and one fragment was applied since; every write
\* has been served and the store holds what memory holds
C23_Witness ==
  /\ failures = 0 /\ bgChecks = 0
  /\ C23_Loaded /\ ~C23_WriteInFlight
  /\ dailyBase = 78800 /\ dailyApplied = 1000
  /\ convBase = 0 /\ convApplied = 1000 /\ msgApplied = 1
  /\ store["lastUrl"] = ChatB
  /\ store["currentConversationTokens"] = 1000
  /\ store["currentMessageCount"] = 1
  /\ store["dailyTokens"] = 79800

\* C24: the two resets are independent.  A conversation reset (the title
\* observer's comparison and the serving of its write) changes, in memory and
\* in the store, nothing but the conversation token counter, the message
\* counter and lastUrl: the daily counter, lastResetDate and selectedPlan
\* stay.  A daily reset (the serving of either script's reset write, and the
\* page's assignment after its own) changes nothing but the daily counter and
\* lastResetDate: the conversation counters, lastUrl and selectedPlan stay.
C24_ConversationKeys == {"currentConversationTokens", "currentMessageCount", "lastUrl"}

C24_DailyKeys == {"dailyTokens", "lastResetDate"}

C24_StoreKeeps(keys) ==
  \A k \in keys : /\ k \in DOMAIN store <=> k \in DOMAIN store'
                  /\ k \in DOMAIN store => store'[k] = store[k]

C24_OtherThan(keys) == (DOMAIN store \cup DOMAIN store') \ keys

C24_ConversationResetStep ==
  /\ Continues("urlObserver", TRUE) =>
       /\ dailyTokens' = dailyTokens
       /\ UNCHANGED << currentPlan, DAILY_LIMIT, MESSAGE_LIMIT, store >>
  /\ Succeeds("page", "urlObserver.set") =>
       /\ C24_StoreKeeps(C24_OtherThan(C24_ConversationKeys))
       /\ UNCHANGED << dailyTokens, currentPlan, DAILY_LIMIT, MESSAGE_LIMIT >>

C24_DailyResetStep ==
  /\ Succeeds("page", "checkDailyReset.set") \/ Succeeds("bg", "checkMidnightReset.set") =>
       /\ C24_StoreKeeps(C24_OtherThan(C24_DailyKeys))
       /\ UNCHANGED << currentConversationTokens, currentMessageCount,
                       currentPlan, DAILY_LIMIT, MESSAGE_LIMIT >>
  /\ Continues("checkDailyReset.set", TRUE) =>
       UNCHANGED << currentConversationTokens, currentMessageCount,
                    currentPlan, DAILY_LIMIT, MESSAGE_LIMIT, store >>

C24_ResetsIndependent == [][C24_ConversationResetStep /\ C24_DailyResetStep]_vars

\* the page loaded 138,000 / 33 / 78,800 on plan free; the background script
\* has since reset the day, which left the stored conversation counters as
\* they were; the page then detected conversation B and zeroed its
\* conversation counters, which left its daily counter and plan as they were
C24_Witness ==
  /\ failures = 0
  /\ bgChecks = 1
  /\ store["dailyTokens"] = 0
  /\ store["lastResetDate"] = 1
  /\ store["currentConversationTokens"] = 138000
  /\ store["currentMessageCount"] = 33
  /\ store["selectedPlan"] = "free"
  /\ InFlight("urlObserver.set") # {}
  /\ currentConversationTokens = 0
  /\ currentMessageCount = 0
  /\ dailyTokens = 78800
  /\ currentPlan = "free"

====
